---- MODULE Spec2Model ----
(***************************************************************************)
(* A model of the 15-key StreamDeck driver (package streamdeck).           *)
(*                                                                         *)
(* The driver is single-threaded and synchronous: every public operation   *)
(* runs to completion on the calling thread.  Each operation is therefore  *)
(* one action that takes the driver from pc = "idle" to pc = "done" and    *)
(* leaves, next to the new handler registry, a record of the call: its     *)
(* arguments, what the transport delivered, the error returned, the        *)
(* handler invocations it made and the pages it wrote.  Return hands       *)
(* control back to the client and drops that record.                       *)
(*                                                                         *)
(* src/streamdeck15.go holds two generations of the driver: the one that   *)
(* translates keys with switch tables (lines 24-234) and the one that      *)
(* translates them with the closed form invertKeyOrId (lines 261-399).     *)
(* Operations that differ between the two are modelled twice; the table    *)
(* generation carries the suffix _table.                                   *)
(*                                                                         *)
(* The client program is part of the state: fns are the functions it       *)
(* registers as handlers, srcs and ikeys the image sources and keys it     *)
(* passes to the image calls.  They are fixed by the initial state, and    *)
(* the specifications differ in them: Spec and SpecAll have handlers that  *)
(* only return, SpecReentrant handlers that call the deck while they are   *)
(* being dispatched, SpecImage every image source; SpecTranslate applies   *)
(* the key translations to every byte value.                               *)
(***************************************************************************)
EXTENDS Integers, Sequences, FiniteSets, TLC

(***************************************************************************)
(* Bounds of the model.                                                    *)
(***************************************************************************)
\* specific-key handlers the client keeps registered at the same time
MaxKeyHandlers == 1
\* positions of one input report that carry the pressed state
MaxPressed == 2
\* key arguments are drawn from 0..MaxKeyArg and the sentinel 255
MaxKeyArg == 16
\* applications of a key translation in a row
MaxApply == 2
\* the width and the height of the small pixel grids go up to MaxDim
MaxDim == 2

(***************************************************************************)
(* Program constants.                                                      *)
(***************************************************************************)
columns == 5
GlobalKey == 255
MaxKey == 14
ReportLen == 16
KeyStateReport == 1
Pressed == 1

Byte == 0..255

CanvasSize == 72
\* mutant: the page split counts pixels, not bytes
imageBytesOnPage1_pixels == 2583 * 1
imageBytesOnPage1 == 2583 * 3
KeyIdOffset == 5

Nil == "nil"
ErrInvalidKey == "invalid key"
ErrRead == "error reading key press"
ErrPage1 == "failed to write page 1"
ErrPage2 == "failed to write page 2"
ErrOpen == "open failed"
ErrDecode == "decode failed"
ErrFeature == "feature report failed"
\* imageBytes[:imageBytesOnPage1] on a buffer shorter than a page panics
PanicSlice == "panic: slice bounds out of range"

\* type KeyPressFn func(key byte) bool: the client functions of the model are
\* told apart by what they return and by what they do to the deck they close
\* over before they return (HandlerBody)
KeyPressFn == {"keep", "once", "swapOnce", "swapKeep", "arm", "disarm"}

\* the functions that do nothing but return
PlainFns == {"keep", "once"}

\* the result of calling handler fn with argument key
Invoke(fn, key) == fn \in {"keep", "swapKeep", "arm", "disarm"}

NoFn == "none"
\* the key field of a call that takes no key
NoKey == 255 + 1

VARIABLES
    handlers,   \* streamDeckBase.handlers: map[byte]KeyPressFn
    pc,         \* "idle": the client is about to call; "done": a call returned
    op,         \* the call that returned: [name, key, fn, src]
    pre,        \* the handler registry when that call started
    read,       \* what device.ReadTimeout delivered to that call
    wok,        \* whether the device accepted the 1st and the 2nd write of that call
    err,        \* the error that call returned
    calls,      \* the handler invocations of that call, in order
    writes,     \* the writes that call attempted on the device, in order
    nreads,     \* the number of times that call called device.ReadTimeout
    buffer,     \* the pixel buffer (imageBytes) that call built
    fns,        \* the functions the client program registers as handlers
    srcs,       \* the image sources the client program passes to SetKeyImage
    ikeys,      \* the keys the client program passes to the image calls
    tin,        \* key translation: the value translated
    tsteps      \* key translation: the translations applied so far, [fn, out]

vars == <<handlers, pc, op, pre, read, wok, err, calls, writes, nreads,
          buffer, fns, srcs, ikeys, tin, tsteps>>

(***************************************************************************)
(* The handler registry: a Go map from byte to KeyPressFn.                 *)
(***************************************************************************)
EmptyMap == [k \in {} |-> NoFn]

\* mutant: an entry that exists is kept, the new value is dropped
MapPut_keepFirst(m, k, v) ==
    [x \in (DOMAIN m) \cup {k} |-> IF x \in DOMAIN m THEN m[x] ELSE v]

\* m[k] = v
MapPut(m, k, v) == [x \in (DOMAIN m) \cup {k} |-> IF x = k THEN v ELSE m[x]]

MapDelete(m, k) == [x \in (DOMAIN m) \ {k} |-> m[x]]

newStreamDeckBase == EmptyMap

(***************************************************************************)
(* Key translation.                                                        *)
(***************************************************************************)
\* mutant: the column is mirrored around columns instead of columns - 1
invertKeyOrId_offByOne(value) ==
    LET col == value % columns
    IN  ((value - col) + (columns - col)) % 256

invertKeyOrId(value) ==
    LET col == value % columns
    IN  ((value - col) + ((columns - 1) - col)) % 256

\* mutant: the table with the keys of ids 0 and 1 exchanged
internalIdToKey_swapped(id) ==
    CASE id = 0 -> 3 [] id = 1 -> 4 [] id = 2 -> 2 [] id = 3 -> 1 [] id = 4 -> 0
      [] id = 5 -> 9 [] id = 6 -> 8 [] id = 7 -> 7 [] id = 8 -> 6 [] id = 9 -> 5
      [] id = 10 -> 14 [] id = 11 -> 13 [] id = 12 -> 12 [] id = 13 -> 11
      [] id = 14 -> 10
      [] OTHER -> 255

internalIdToKey(id) ==
    CASE id = 0 -> 4 [] id = 1 -> 3 [] id = 2 -> 2 [] id = 3 -> 1 [] id = 4 -> 0
      [] id = 5 -> 9 [] id = 6 -> 8 [] id = 7 -> 7 [] id = 8 -> 6 [] id = 9 -> 5
      [] id = 10 -> 14 [] id = 11 -> 13 [] id = 12 -> 12 [] id = 13 -> 11
      [] id = 14 -> 10
      [] OTHER -> 255

keyToInternalId(key) ==
    CASE key = 4 -> 0 [] key = 3 -> 1 [] key = 2 -> 2 [] key = 1 -> 3 [] key = 0 -> 4
      [] key = 9 -> 5 [] key = 8 -> 6 [] key = 7 -> 7 [] key = 6 -> 8 [] key = 5 -> 9
      [] key = 14 -> 10 [] key = 13 -> 11 [] key = 12 -> 12 [] key = 11 -> 13
      [] key = 10 -> 14
      [] OTHER -> 255

(***************************************************************************)
(* Images.                                                                 *)
(***************************************************************************)
\* a decoded image.Image: its bounds [minX, maxX) x [minY, maxY) and the
\* pattern its pixels follow
NoImage == [present |-> FALSE, minX |-> 0, minY |-> 0, maxX |-> 0, maxY |-> 0,
            pat |-> "none"]

MkImage(minX, minY, w, h, pat) ==
    [present |-> TRUE, minX |-> minX, minY |-> minY, maxX |-> minX + w,
     maxY |-> minY + h, pat |-> pat]

\* the two colours of the palette of a "paletted" image
Palette ==
    <<[r |-> 10 * 257, g |-> 20 * 257, b |-> 30 * 257],
      [r |-> 200 * 257, g |-> 100 * 257, b |-> 50 * 257]>>

\* img.At(x, y).RGBA(): the 16-bit red, green and blue of a pixel.  Outside
\* their bounds the image types image.Decode produces answer the zero colour,
\* but for image.Paletted, which answers the first colour of its palette.
ImageAt(img, x, y) ==
    IF x < img.minX \/ x >= img.maxX \/ y < img.minY \/ y >= img.maxY
    THEN IF img.pat = "paletted" THEN Palette[1] ELSE [r |-> 0, g |-> 0, b |-> 0]
    ELSE CASE img.pat = "white" -> [r |-> 65535, g |-> 65535, b |-> 65535]
           [] img.pat = "paletted" -> Palette[1 + ((x + y + 1) % 2)]
           [] OTHER -> [r |-> (x * 1021 + 7) % 65536,
                        g |-> (y * 1031 + 300) % 65536,
                        b |-> ((x + y) * 911 + 45) % 65536]

\* the decoded images of the model: canvas-sized ones, and grids of a few
\* pixels, too small to fill a page, with their origin at (0, 0) or (1, 1)
Images ==
    {MkImage(0, 0, CanvasSize, CanvasSize, "ramp"),
     MkImage(0, 0, CanvasSize, CanvasSize, "white")}
    \cup {MkImage(o, o, w, h, pat) :
             o \in {0, 1}, w \in 1..MaxDim, h \in 1..MaxDim,
             pat \in {"ramp", "paletted"}}

\* what SetKeyImage is given: a filename and what the file system holds
\* under it, seen through loadImage
loadImage(filename, file) ==
    IF filename = ""
    THEN [img |-> NoImage, err |-> Nil]
    ELSE IF file.err # Nil
         THEN [img |-> NoImage, err |-> file.err]
         ELSE [img |-> file.img, err |-> Nil]

Files ==
    {[img |-> NoImage, err |-> ErrOpen], [img |-> NoImage, err |-> ErrDecode]}
    \cup {[img |-> i, err |-> Nil] : i \in Images}

\* no source: the empty filename, under which no file is looked up
NoSrc == [filename |-> "", file |-> [img |-> NoImage, err |-> Nil]]

Sources == {NoSrc} \cup {[filename |-> "key.png", file |-> f] : f \in Files}

\* The pixel loops of SetKeyImage, as the bytes their iterations append to
\* imageBytes.  A loop of more than one iteration is split in two: its first
\* iterations, then the others.

\* mutant: a scanline is read from bounds.Max.X - 1 down to bounds.Min.X
RECURSIVE ScanX_inBounds(_, _, _, _)
ScanX_inBounds(img, y, x, last) ==
    IF ~(x > last)
    THEN <<>>
    ELSE IF x - 1 > last
         THEN LET mid == (x + last) \div 2
              IN  ScanX_inBounds(img, y, x, mid) \o ScanX_inBounds(img, y, mid, last)
         ELSE LET px == ImageAt(img, x - 1, y)
              IN  <<px.b % 256, px.g % 256, px.r % 256>>

\* `for x := bounds.Max.X; x > bounds.Min.X; x--` in scanline y, with x
\* starting at x and bounds.Min.X at last
RECURSIVE ScanX(_, _, _, _)
ScanX(img, y, x, last) ==
    IF ~(x > last)
    THEN <<>>
    ELSE IF x - 1 > last
         THEN LET mid == (x + last) \div 2
              IN  ScanX(img, y, x, mid) \o ScanX(img, y, mid, last)
         ELSE LET px == ImageAt(img, x, y)
              IN  <<px.b % 256, px.g % 256, px.r % 256>>

\* `for y := bounds.Min.Y; y < bounds.Max.Y; y++` with y starting at y and
\* bounds.Max.Y at end
RECURSIVE ScanY(_, _, _)
ScanY(img, y, end) ==
    IF ~(y < end)
    THEN <<>>
    ELSE IF y + 1 < end
         THEN LET mid == (y + end) \div 2
              IN  ScanY(img, y, mid) \o ScanY(img, mid, end)
         ELSE ScanX(img, y, img.maxX, img.minX)

\* the pixel buffer SetKeyImage builds from a pixel grid
PixelBytes(img) == ScanY(img, img.minY, img.maxY)

BlankBytes == [i \in 1..(CanvasSize * CanvasSize * 3) |-> 0]

imageBytesOf(img) == IF img.present THEN PixelBytes(img) ELSE BlankBytes

header1(id) ==
    <<2, 1, 1, 0, 0, id, 0, 0,
      0, 0, 0, 0, 0, 0, 0, 0,
      66, 77, 246, 60, 0, 0, 0, 0,
      0, 0, 54, 0, 0, 0, 40, 0,
      0, 0, 72, 0, 0, 0, 72, 0,
      0, 0, 1, 0, 24, 0, 0, 0,
      0, 0, 192, 60, 0, 0, 196, 14,
      0, 0, 196, 14, 0, 0, 0, 0,
      0, 0, 0, 0, 0, 0>>

header2(id) ==
    <<2, 1, 2, 0, 1, id, 0, 0,
      0, 0, 0, 0, 0, 0, 0, 0>>

(***************************************************************************)
(* Inputs.                                                                 *)
(***************************************************************************)
\* the key arguments the client passes
KeyArgs == (0..MaxKeyArg) \cup {255}

NoOp == [name |-> "none", key |-> NoKey, fn |-> NoFn, src |-> NoSrc]

MkOp(name, key, fn) == [name |-> name, key |-> key, fn |-> fn, src |-> NoSrc]

NoRead == [failed |-> FALSE, bytes |-> 0, report |-> <<>>]

\* the native ids a report carries a state byte for: report[1:]
NativeIds == 0..(ReportLen - 2)

\* a 16-byte report: byte 0 is reportId, native id i has its state at byte
\* 1 + i (TLA+ index i + 2); the ids in P are pressed, the others carry rest
MkReport(reportId, P, rest) ==
    [i \in 1..ReportLen |->
        IF i = 1 THEN reportId ELSE IF (i - 2) \in P THEN Pressed ELSE rest]

PressSets == {P \in SUBSET NativeIds : Cardinality(P) <= MaxPressed}

\* press sets of at most one key
FewPressSets == {P \in PressSets : Cardinality(P) <= 1}

\* key-state reports with every press set, the other keys released; key-state
\* reports whose other bytes are neither released nor pressed; reports of
\* another type
Reports ==
    {MkReport(KeyStateReport, P, 0) : P \in PressSets}
    \cup {MkReport(KeyStateReport, P, 2) : P \in FewPressSets}
    \cup {MkReport(2, P, rest) : P \in FewPressSets, rest \in {0, 2}}
    \cup {MkReport(reportId, P, 0) : reportId \in {0, 255}, P \in FewPressSets}

\* the outcomes of device.ReadTimeout(report, timeout): an error, nothing
\* within the timeout, a read that filled byte 0 only, or a report.  The
\* timeout is handed to the device and decides nothing in the driver.
Reads ==
    {[failed |-> TRUE, bytes |-> 0, report |-> MkReport(0, {}, 0)],
     [failed |-> FALSE, bytes |-> 0, report |-> MkReport(0, {}, 0)],
     [failed |-> FALSE, bytes |-> 1, report |-> MkReport(KeyStateReport, {}, 0)]}
    \cup {[failed |-> FALSE, bytes |-> ReportLen, report |-> r] : r \in Reports}

\* whether the device accepts the first and the second write of a call
WriteOutcomes == [1..2 -> BOOLEAN]

NoWok == [i \in 1..2 |-> TRUE]

(***************************************************************************)
(* A call returns.                                                         *)
(***************************************************************************)
Idle == pc = "idle"

\* the record of a call, but for its reads and its pixel buffer
Record(o, e, h, c, r, w, wo) ==
    /\ pc' = "done"
    /\ op' = o
    /\ pre' = handlers
    /\ handlers' = h
    /\ err' = e
    /\ calls' = c
    /\ read' = r
    /\ writes' = w
    /\ wok' = wo
    /\ UNCHANGED <<fns, srcs, ikeys, tin, tsteps>>

\* a call that neither reads from the device nor builds a pixel buffer
Returned(o, e, h, c, r, w, wo) ==
    /\ Record(o, e, h, c, r, w, wo)
    /\ nreads' = 0
    /\ buffer' = <<>>

\* a call that touches the transport neither way
Done(name, key, fn, e, h) ==
    Returned(MkOp(name, key, fn), e, h, <<>>, NoRead, <<>>, NoWok)

(***************************************************************************)
(* Handler registration.                                                   *)
(***************************************************************************)
\* the client holds at most MaxKeyHandlers specific-key handlers
MayRegister(key) ==
    \/ key > MaxKey
    \/ key \in DOMAIN handlers
    \/ Cardinality((DOMAIN handlers) \ {GlobalKey}) < MaxKeyHandlers

SetGlobalKeyHandler ==
    /\ Idle
    /\ \E fn \in fns :
         Done("SetGlobalKeyHandler", NoKey, fn, Nil, MapPut(handlers, 255, fn))

ClearGlobalKeyHandler ==
    /\ Idle
    /\ Done("ClearGlobalKeyHandler", NoKey, NoFn, Nil, MapDelete(handlers, 255))

\* mutant: the upper limit of the range check is one too high
InvalidHandlerKey_upTo15(key) == key < 0 \/ key > 15

\* if key < 0 || key > 14
InvalidHandlerKey(key) == key < 0 \/ key > 14

SetKeyHandler ==
    /\ Idle
    /\ \E key \in KeyArgs, fn \in fns :
         /\ MayRegister(key)
         /\ IF InvalidHandlerKey(key)
            THEN Done("SetKeyHandler", key, fn, ErrInvalidKey, handlers)
            ELSE Done("SetKeyHandler", key, fn, Nil, MapPut(handlers, key, fn))

ClearKeyHandler ==
    /\ Idle
    /\ \E key \in KeyArgs :
         IF InvalidHandlerKey(key)
         THEN Done("ClearKeyHandler", key, NoFn, ErrInvalidKey, handlers)
         ELSE Done("ClearKeyHandler", key, NoFn, Nil, MapDelete(handlers, key))

(***************************************************************************)
(* Event dispatch.                                                         *)
(***************************************************************************)
\* What the body of handler fn, called with key, does to the registry h
\* before it returns.  A handler is a closure of the client and may call the
\* deck it closes over: "swapOnce" and "swapKeep" register "keep" under the
\* key they are called with (SetGlobalKeyHandler for 255, SetKeyHandler
\* otherwise); "arm" calls SetKeyHandler(0, keep) and "disarm"
\* ClearKeyHandler(0), whatever key they are called with.
HandlerBody(fn, key, h) ==
    CASE fn \in {"swapOnce", "swapKeep"} -> MapPut(h, key, "keep")
      [] fn = "arm" -> MapPut(h, 0, "keep")
      [] fn = "disarm" -> MapDelete(h, 0)
      [] OTHER -> h

\* mutant: after a false return the entry is deleted only if it still holds
\* the handler that was called
dispatchKey_removeByIdentity(d, key, id) ==
    IF key \in DOMAIN d.handlers
    THEN LET handler == d.handlers[key]
             h == HandlerBody(handler, key, d.handlers)
         IN  [handlers |-> IF /\ ~Invoke(handler, key)
                              /\ key \in DOMAIN h
                              /\ h[key] = handler
                           THEN MapDelete(h, key)
                           ELSE h,
              calls |-> Append(d.calls, [fn |-> handler, arg |-> key, id |-> id])]
    ELSE d

\* mutant: the global handler is called with the logical key of the press
dispatchKey_globalGetsKey(d, key, id) ==
    IF key \in DOMAIN d.handlers
    THEN LET handler == d.handlers[key]
             arg == IF key = 255 THEN invertKeyOrId(id) ELSE key
             h == HandlerBody(handler, arg, d.handlers)
         IN  [handlers |-> IF ~Invoke(handler, arg) THEN MapDelete(h, key) ELSE h,
              calls |-> Append(d.calls, [fn |-> handler, arg |-> arg, id |-> id])]
    ELSE d

\* mutant: the global handler stays registered whatever it returns
dispatchKey_globalStays(d, key, id) ==
    IF key \in DOMAIN d.handlers
    THEN LET handler == d.handlers[key]
             h == HandlerBody(handler, key, d.handlers)
         IN  [handlers |-> IF ~Invoke(handler, key) /\ key # 255
                           THEN MapDelete(h, key)
                           ELSE h,
              calls |-> Append(d.calls, [fn |-> handler, arg |-> key, id |-> id])]
    ELSE d

\* mutant: a handler that returns false is not removed
dispatchKey_noRemove(d, key, id) ==
    IF key \in DOMAIN d.handlers
    THEN [handlers |-> HandlerBody(d.handlers[key], key, d.handlers),
          calls |-> Append(d.calls, [fn |-> d.handlers[key], arg |-> key, id |-> id])]
    ELSE d

\* mutant: a handler is removed when it returns true
dispatchKey_removeOnTrue(d, key, id) ==
    IF key \in DOMAIN d.handlers
    THEN LET handler == d.handlers[key]
             h == HandlerBody(handler, key, d.handlers)
         IN  [handlers |-> IF Invoke(handler, key) THEN MapDelete(h, key) ELSE h,
              calls |-> Append(d.calls, [fn |-> handler, arg |-> key, id |-> id])]
    ELSE d

\* d is the pair [handlers, calls] the dispatch works on; id is the native id
\* of the press being dispatched (kept in the invocation record only).
\* handler(key) runs the handler's body, and then the entry of key is deleted
\* if the handler returned false.
dispatchKey(d, key, id) ==
    IF key \in DOMAIN d.handlers
    THEN LET handler == d.handlers[key]
             h == HandlerBody(handler, key, d.handlers)
         IN  [handlers |-> IF ~Invoke(handler, key) THEN MapDelete(h, key) ELSE h,
              calls |-> Append(d.calls, [fn |-> handler, arg |-> key, id |-> id])]
    ELSE d

\* mutant: the specific-key handler is dispatched before the global one
DispatchPress_specificFirst(d, report, id) ==
    LET key == invertKeyOrId(id)
        state == report[id + 2]
    IN  IF state = Pressed
        THEN dispatchKey(dispatchKey(d, key, id), 255, id)
        ELSE d

\* mutant: the native id is used as the logical key
DispatchPress_untranslated(d, report, id) ==
    LET key == id
        state == report[id + 2]
    IN  IF state = Pressed
        THEN dispatchKey(dispatchKey(d, 255, id), key, id)
        ELSE d

\* the body of `for id, state := range report[1:]` for one id
DispatchPress(d, report, id) ==
    LET key == invertKeyOrId(id)
        state == report[id + 2]
    IN  IF state = Pressed
        THEN dispatchKey(dispatchKey(d, 255, id), key, id)
        ELSE d

\* mutant: the report is walked from its last position to its first
RECURSIVE DispatchFrom_descending(_, _, _)
DispatchFrom_descending(d, report, id) ==
    IF id > ReportLen - 2
    THEN d
    ELSE DispatchPress(DispatchFrom_descending(d, report, id + 1), report, id)

\* `for id, state := range report[1:]` from position id on
RECURSIVE DispatchFrom(_, _, _)
DispatchFrom(d, report, id) ==
    IF id > ReportLen - 2
    THEN d
    ELSE DispatchFrom(DispatchPress(d, report, id), report, id + 1)

\* mutant: a failed read is taken for an empty one
ProcessEvents_readErrorDropped ==
    /\ Idle
    /\ nreads' = 1
    /\ buffer' = <<>>
    /\ \E r \in Reads :
         LET o == MkOp("ProcessEvents", NoKey, NoFn)
         IN  IF ~r.failed /\ r.bytes > 0 /\ r.report[1] = KeyStateReport
             THEN LET d == DispatchFrom([handlers |-> handlers, calls |-> <<>>],
                                        r.report, 0)
                  IN  Record(o, Nil, d.handlers, d.calls, r, <<>>, NoWok)
             ELSE Record(o, Nil, handlers, <<>>, r, <<>>, NoWok)

\* mutant: the report is dispatched whatever its first byte
ProcessEvents_anyReportId ==
    /\ Idle
    /\ nreads' = 1
    /\ buffer' = <<>>
    /\ \E r \in Reads :
         LET o == MkOp("ProcessEvents", NoKey, NoFn)
         IN  IF r.failed
             THEN Record(o, ErrRead, handlers, <<>>, r, <<>>, NoWok)
             ELSE IF r.bytes > 0
                  THEN LET d == DispatchFrom([handlers |-> handlers, calls |-> <<>>],
                                             r.report, 0)
                       IN  Record(o, Nil, d.handlers, d.calls, r, <<>>, NoWok)
                  ELSE Record(o, Nil, handlers, <<>>, r, <<>>, NoWok)

\* bytes, err := deck.device.ReadTimeout(report, timeout): called once, first
ProcessEvents ==
    /\ Idle
    /\ nreads' = 1
    /\ buffer' = <<>>
    /\ \E r \in Reads :
         LET o == MkOp("ProcessEvents", NoKey, NoFn)
         IN  IF r.failed
             THEN Record(o, ErrRead, handlers, <<>>, r, <<>>, NoWok)
             ELSE IF r.bytes > 0 /\ r.report[1] = KeyStateReport
                  THEN LET d == DispatchFrom([handlers |-> handlers, calls |-> <<>>],
                                             r.report, 0)
                       IN  Record(o, Nil, d.handlers, d.calls, r, <<>>, NoWok)
                  ELSE Record(o, Nil, handlers, <<>>, r, <<>>, NoWok)

\* the loop body of the table generation: key := deck.internalIdToKey(byte(id))
DispatchPress_table(d, report, id) ==
    LET key == internalIdToKey(id)
        state == report[id + 2]
    IN  IF state = Pressed
        THEN dispatchKey(dispatchKey(d, 255, id), key, id)
        ELSE d

RECURSIVE DispatchFrom_table(_, _, _)
DispatchFrom_table(d, report, id) ==
    IF id > ReportLen - 2
    THEN d
    ELSE DispatchFrom_table(DispatchPress_table(d, report, id), report, id + 1)

ProcessEvents_table ==
    /\ Idle
    /\ nreads' = 1
    /\ buffer' = <<>>
    /\ \E r \in Reads :
         LET o == MkOp("ProcessEvents_table", NoKey, NoFn)
         IN  IF r.failed
             THEN Record(o, ErrRead, handlers, <<>>, r, <<>>, NoWok)
             ELSE IF r.bytes > 0 /\ r.report[1] = KeyStateReport
                  THEN LET d == DispatchFrom_table(
                                    [handlers |-> handlers, calls |-> <<>>],
                                    r.report, 0)
                       IN  Record(o, Nil, d.handlers, d.calls, r, <<>>, NoWok)
                  ELSE Record(o, Nil, handlers, <<>>, r, <<>>, NoWok)

(***************************************************************************)
(* Image transfer and reset.                                               *)
(***************************************************************************)
\* device.Write(page) with page = header ++ payload; dev is the sequence of
\* writes attempted so far, ok what the device answers to this one
writePage(dev, header, payload, ok) ==
    [writes |-> Append(dev, [kind |-> "write", page |-> header \o payload, ok |-> ok]),
     failed |-> ~ok]

\* mutant: page 2 is written whatever became of page 1
WritePages_noAbort(id, imageBytes, wo) ==
    IF Len(imageBytes) < imageBytesOnPage1
    THEN [writes |-> <<>>, err |-> PanicSlice]
    ELSE LET p1 == writePage(<<>>, header1(id),
                             SubSeq(imageBytes, 1, imageBytesOnPage1), wo[1])
             p2 == writePage(p1.writes, header2(id),
                             SubSeq(imageBytes, imageBytesOnPage1 + 1,
                                    Len(imageBytes)), wo[2])
         IN  [writes |-> p2.writes,
              err |-> IF p1.failed THEN ErrPage1
                      ELSE IF p2.failed THEN ErrPage2 ELSE Nil]

\* SetKeyImage from the pixel buffer on: the two headers and the two pages.
\* A buffer shorter than imageBytesOnPage1 comes from a grid of a few pixels,
\* whose appended slice has a capacity of a few dozen bytes: the slice
\* expression of page 1 panics before anything is written.
WritePages(id, imageBytes, wo) ==
    IF Len(imageBytes) < imageBytesOnPage1
    THEN [writes |-> <<>>, err |-> PanicSlice]
    ELSE LET p1 == writePage(<<>>, header1(id),
                             SubSeq(imageBytes, 1, imageBytesOnPage1), wo[1])
         IN  IF p1.failed
             THEN [writes |-> p1.writes, err |-> ErrPage1]
             ELSE LET p2 == writePage(p1.writes, header2(id),
                                      SubSeq(imageBytes, imageBytesOnPage1 + 1,
                                             Len(imageBytes)), wo[2])
                  IN  IF p2.failed
                      THEN [writes |-> p2.writes, err |-> ErrPage2]
                      ELSE [writes |-> p2.writes, err |-> Nil]

\* mutant: the identifier is left 0-based
ImageId_zeroBased(key) == invertKeyOrId(key)

\* id := deck.invertKeyOrId(key) + 1
ImageId(key) == (invertKeyOrId(key) + 1) % 256

\* SetKeyImage from loadImage on, as [writes, err, imageBytes]
LoadAndWrite(id, src, wo) ==
    LET l == loadImage(src.filename, src.file)
    IN  IF l.err # Nil
        THEN [writes |-> <<>>, err |-> l.err, imageBytes |-> <<>>]
        ELSE LET b == imageBytesOf(l.img)
                 p == WritePages(id, b, wo)
             IN  [writes |-> p.writes, err |-> p.err, imageBytes |-> b]

\* SetKeyImage of the closed-form generation, as [writes, err, imageBytes]
SetKeyImageBody(key, src, wo) == LoadAndWrite(ImageId(key), src, wo)

\* SetKeyImage of the table generation, as [writes, err, imageBytes]
SetKeyImageBody_table(key, src, wo) ==
    LET id == keyToInternalId(key)
    IN  IF id = 255
        THEN [writes |-> <<>>, err |-> ErrInvalidKey, imageBytes |-> <<>>]
        ELSE LoadAndWrite(id, src, wo)

\* an image call returns: res is what its body came to
ImageReturned(o, res, wo) ==
    /\ Record(o, res.err, handlers, <<>>, NoRead, res.writes, wo)
    /\ nreads' = 0
    /\ buffer' = res.imageBytes

ImageOp(name, key, src) == [name |-> name, key |-> key, fn |-> NoFn, src |-> src]

SetKeyImage ==
    /\ Idle
    /\ \E key \in ikeys, src \in srcs, wo \in WriteOutcomes :
         LET res == SetKeyImageBody(key, src, wo)
         IN  ImageReturned(ImageOp("SetKeyImage", key, src), res, wo)

ClearKeyImage ==
    /\ Idle
    /\ \E key \in ikeys, wo \in WriteOutcomes :
         LET res == SetKeyImageBody(key, NoSrc, wo)
         IN  ImageReturned(ImageOp("ClearKeyImage", key, NoSrc), res, wo)

SetKeyImage_table ==
    /\ Idle
    /\ \E key \in ikeys, src \in srcs, wo \in WriteOutcomes :
         LET res == SetKeyImageBody_table(key, src, wo)
         IN  ImageReturned(ImageOp("SetKeyImage_table", key, src), res, wo)

ClearKeyImage_table ==
    /\ Idle
    /\ \E key \in ikeys, wo \in WriteOutcomes :
         LET res == SetKeyImageBody_table(key, NoSrc, wo)
         IN  ImageReturned(ImageOp("ClearKeyImage_table", key, NoSrc), res, wo)

\* device.WriteFeature([]byte{0x0b, 0x63})
Reset ==
    /\ Idle
    /\ \E ok \in BOOLEAN :
         Returned(MkOp("Reset", NoKey, NoFn), IF ok THEN Nil ELSE ErrFeature,
                  handlers, <<>>, NoRead,
                  <<[kind |-> "feature", page |-> <<11, 99>>, ok |-> ok]>>,
                  [i \in 1..2 |-> ok])

(***************************************************************************)
(* The call returned: the client drops the record of it.                   *)
(***************************************************************************)
Return ==
    /\ pc = "done"
    /\ pc' = "idle"
    /\ op' = NoOp
    /\ pre' = EmptyMap
    /\ read' = NoRead
    /\ wok' = NoWok
    /\ err' = Nil
    /\ calls' = <<>>
    /\ writes' = <<>>
    /\ nreads' = 0
    /\ buffer' = <<>>
    /\ UNCHANGED <<handlers, fns, srcs, ikeys, tin, tsteps>>

(***************************************************************************)
(* Key translation as a process: a value and the translations applied to   *)
(* it one after the other.                                                 *)
(***************************************************************************)
Current == IF tsteps = <<>> THEN tin ELSE tsteps[Len(tsteps)].out

MayApply == pc = "translate" /\ Len(tsteps) < MaxApply

Apply(fn, out) ==
    /\ tsteps' = Append(tsteps, [fn |-> fn, out |-> out])
    /\ UNCHANGED <<handlers, pc, op, pre, read, wok, err, calls, writes, nreads,
                   buffer, fns, srcs, ikeys, tin>>

ApplyInvertKeyOrId == MayApply /\ Apply("invertKeyOrId", invertKeyOrId(Current))

ApplyInternalIdToKey == MayApply /\ Apply("internalIdToKey", internalIdToKey(Current))

ApplyKeyToInternalId == MayApply /\ Apply("keyToInternalId", keyToInternalId(Current))

(***************************************************************************)
(* Specifications.                                                         *)
(***************************************************************************)
InitDeck ==
    /\ handlers = newStreamDeckBase
    /\ op = NoOp
    /\ pre = EmptyMap
    /\ read = NoRead
    /\ wok = NoWok
    /\ err = Nil
    /\ calls = <<>>
    /\ writes = <<>>
    /\ nreads = 0
    /\ buffer = <<>>
    /\ tsteps = <<>>

\* a file that cannot be opened
MissingFile == [filename |-> "key.png", file |-> [img |-> NoImage, err |-> ErrOpen]]

\* a client whose handlers leave the registry alone, whose image file is
\* missing and which shows images on the first key, on the last one and on
\* keys that do not exist
Init ==
    /\ InitDeck
    /\ pc = "idle"
    /\ fns = PlainFns
    /\ srcs = {MissingFile}
    /\ ikeys = {0, 14, 15, 255}
    /\ tin = 0

\* handler registration and event dispatch
Next ==
    \/ SetGlobalKeyHandler
    \/ ClearGlobalKeyHandler
    \/ SetKeyHandler
    \/ ClearKeyHandler
    \/ ProcessEvents
    \/ ProcessEvents_table
    \/ Return

Spec == Init /\ [][Next]_vars

\* image transfer and reset
NextImage ==
    \/ SetKeyImage
    \/ ClearKeyImage
    \/ SetKeyImage_table
    \/ ClearKeyImage_table
    \/ Reset
    \/ Return

\* every operation of the deck
NextAll ==
    \/ SetGlobalKeyHandler
    \/ ClearGlobalKeyHandler
    \/ SetKeyHandler
    \/ ClearKeyHandler
    \/ ProcessEvents
    \/ ProcessEvents_table
    \/ SetKeyImage
    \/ ClearKeyImage
    \/ SetKeyImage_table
    \/ ClearKeyImage_table
    \/ Reset
    \/ Return

SpecAll == Init /\ [][NextAll]_vars

\* a client that registers no handler and passes every image source
InitImage ==
    /\ InitDeck
    /\ pc = "idle"
    /\ fns = PlainFns
    /\ srcs = Sources
    /\ ikeys = KeyArgs
    /\ tin = 0

SpecImage == InitImage /\ [][NextImage]_vars

\* the key translations on every byte value
InitTranslate ==
    /\ InitDeck
    /\ pc = "translate"
    /\ fns = PlainFns
    /\ srcs = {NoSrc}
    /\ ikeys = {}
    /\ tin \in Byte

NextTranslate ==
    \/ ApplyInvertKeyOrId
    \/ ApplyInternalIdToKey
    \/ ApplyKeyToInternalId

\* clients whose handlers call the deck while they are being dispatched: each
\* registers the functions of one of these sets
ReentrantClients == {{"swapOnce"}, {"swapKeep"}, {"arm"}, {"disarm", "keep"}}

InitReentrant ==
    /\ InitDeck
    /\ pc = "idle"
    /\ fns \in ReentrantClients
    /\ srcs = {NoSrc}
    /\ ikeys = {}
    /\ tin = 0

\* such a client registers handlers and polls for events
NextReentrant ==
    \/ SetGlobalKeyHandler
    \/ SetKeyHandler
    \/ ProcessEvents
    \/ Return

SpecReentrant == InitReentrant /\ [][NextReentrant]_vars

SpecTranslate == InitTranslate /\ [][NextTranslate]_vars

(***************************************************************************)
(* What the properties are stated over.                                    *)
(***************************************************************************)
ValidKeys == 0..14

\* the translation as the claims state it: rows of 5, column c to column 4 - c
translate(v) == 5 * (v \div 5) + (4 - (v % 5))

EventOps == {"ProcessEvents", "ProcessEvents_table"}

HandlerOps == {"SetKeyHandler", "ClearKeyHandler"}

ClosedImageOps == {"SetKeyImage", "ClearKeyImage"}

TableImageOps == {"SetKeyImage_table", "ClearKeyImage_table"}

ImageOps == ClosedImageOps \cup TableImageOps

Called(names) == pc = "done" /\ op.name \in names

\* ProcessEvents read a key-state report and walked it
KeyStateRead ==
    /\ Called(EventOps)
    /\ ~read.failed
    /\ read.bytes > 0
    /\ read.report[1] = KeyStateReport

\* the state byte of native id i: report index 1 + i
StateByte(i) == read.report[i + 2]

PressedIds == {i \in NativeIds : StateByte(i) = Pressed}

\* the positions in calls of the invocations made with argument k
InvokedWith(k) == {i \in DOMAIN calls : calls[i].arg = k}

(***************************************************************************)
(* C1. SetKeyHandler and ClearKeyHandler return the invalid-key error for  *)
(* every key outside 0..14 and then leave the handler registry exactly as  *)
(* it was; for every key in 0..14 they return no error.                    *)
(***************************************************************************)
C1_HandlerKeyRange ==
    Called(HandlerOps) =>
        IF op.key \in ValidKeys
        THEN err = Nil
        ELSE err = ErrInvalidKey /\ handlers = pre

C1_Witness ==
    /\ Called({"SetKeyHandler"})
    /\ op.key = 15
    /\ err = ErrInvalidKey
    /\ pre # EmptyMap
    /\ handlers = pre

(***************************************************************************)
(* C2. SetKeyImage and ClearKeyImage fail with the invalid-key error for   *)
(* every key outside 0..14, and then no page is written to the transport.  *)
(***************************************************************************)
C2_ImageKeyRange ==
    (Called(ImageOps) /\ op.key \notin ValidKeys) =>
        (err = ErrInvalidKey /\ writes = <<>>)

(***************************************************************************)
(* C3. The key translation is an involution and a permutation of the valid *)
(* range: for every v in 0..14, translate(v) is in 0..14, lies in the row  *)
(* of v with column c mapped to column 4 - c, and translate(translate(v))  *)
(* is v.  Stated of each of the three translations of the source.          *)
(***************************************************************************)
C3_Involution ==
    (pc = "translate" /\ tin \in ValidKeys) =>
        /\ Len(tsteps) >= 1 =>
              /\ tsteps[1].out \in ValidKeys
              /\ tsteps[1].out \div 5 = tin \div 5
              /\ tsteps[1].out % 5 = 4 - (tin % 5)
        /\ (Len(tsteps) >= 2 /\ tsteps[2].fn = tsteps[1].fn) =>
              tsteps[2].out = tin

C3_Witness ==
    /\ pc = "translate"
    /\ tin = 6
    /\ Len(tsteps) = 2
    /\ tsteps[1] = [fn |-> "invertKeyOrId", out |-> 8]
    /\ tsteps[2] = [fn |-> "invertKeyOrId", out |-> 6]

(***************************************************************************)
(* C4. One-shot handlers: a press of k whose handler returns false invokes *)
(* that handler exactly once and removes it; a press of k while no handler *)
(* is registered for k invokes no specific-key handler, and only           *)
(* SetKeyHandler(k, ...) registers one again; a handler that returns true  *)
(* is invoked once and stays registered, so the next press invokes it      *)
(* again.                                                                  *)
(***************************************************************************)
C4_PressOf(k) ==
    LET inv == InvokedWith(k)
    IN  IF k \in DOMAIN pre
        THEN /\ Cardinality(inv) = 1
             /\ \A i \in inv : calls[i].fn = pre[k]
             /\ IF Invoke(pre[k], k)
                THEN k \in DOMAIN handlers /\ handlers[k] = pre[k]
                ELSE k \notin DOMAIN handlers
        ELSE inv = {} /\ k \notin DOMAIN handlers

C4_State ==
    /\ KeyStateRead =>
          \A k \in ValidKeys : StateByte(translate(k)) = Pressed => C4_PressOf(k)
    /\ pc = "done" =>
          \A k \in ValidKeys :
              (k \in DOMAIN handlers /\ k \notin DOMAIN pre) =>
                  (op.name = "SetKeyHandler" /\ op.key = k)

C4_OneShot == []C4_State /\ [][pc' = "idle" => handlers' = handlers]_vars

C4_Witness ==
    /\ KeyStateRead
    /\ 0 \in DOMAIN pre
    /\ pre[0] = "once"
    /\ StateByte(4) = Pressed
    /\ calls = <<[fn |-> "once", arg |-> 0, id |-> 4]>>
    /\ 0 \notin DOMAIN handlers

(***************************************************************************)
(* C5. For every pressed position of a key-state report the global handler *)
(* (if one is registered at that moment) is invoked before the             *)
(* specific-key handler of that same press, never after it.                *)
(***************************************************************************)
\* the global handler is registered when the press of native id i is
\* dispatched: it was when the call started and no earlier press of the
\* report removed it
GlobalAt(i) ==
    /\ GlobalKey \in DOMAIN pre
    /\ Invoke(pre[GlobalKey], GlobalKey) \/ \A j \in PressedIds : i <= j

C5_GlobalFirst ==
    KeyStateRead =>
        /\ \A a, b \in DOMAIN calls :
              (calls[a].id = calls[b].id /\ calls[a].arg = GlobalKey
                    /\ calls[b].arg # GlobalKey) => a < b
        /\ \A i \in PressedIds :
              GlobalAt(i) =>
                  \E a \in DOMAIN calls :
                      /\ calls[a] = [fn |-> pre[GlobalKey], arg |-> GlobalKey, id |-> i]
                      /\ \A b \in DOMAIN calls : (calls[b].id = i /\ b # a) => a < b

C5_Witness ==
    /\ KeyStateRead
    /\ Len(calls) = 2
    /\ calls[1].arg = GlobalKey /\ calls[1].id = 0
    /\ calls[2].arg = 4 /\ calls[2].id = 0

(***************************************************************************)
(* C6. As claimed: a global handler installed with SetGlobalKeyHandler and *)
(* not cleared by ClearGlobalKeyHandler is invoked exactly once per press, *)
(* n times in a key-state report with n pressed positions.                 *)
(***************************************************************************)
C6_GlobalOncePerPress ==
    (KeyStateRead /\ GlobalKey \in DOMAIN pre) =>
        Cardinality(InvokedWith(GlobalKey)) = Cardinality(PressedIds)

(***************************************************************************)
(* C6, amended. A global handler that returns true on every invocation and *)
(* is not cleared by ClearGlobalKeyHandler is invoked exactly once per     *)
(* press, n times in a key-state report with n pressed positions, and      *)
(* stays registered for the presses of later reports; a global handler     *)
(* that returns false is invoked for the first press only and is removed   *)
(* by that dispatch.  Nothing but ClearGlobalKeyHandler and such a         *)
(* dispatch removes the global handler.                                    *)
(***************************************************************************)
C6_State ==
    /\ (KeyStateRead /\ GlobalKey \in DOMAIN pre) =>
          LET n == Cardinality(PressedIds)
              inv == InvokedWith(GlobalKey)
          IN  IF Invoke(pre[GlobalKey], GlobalKey)
              THEN /\ Cardinality(inv) = n
                   /\ \A i \in PressedIds : \E a \in inv : calls[a].id = i
                   /\ GlobalKey \in DOMAIN handlers
                   /\ handlers[GlobalKey] = pre[GlobalKey]
              ELSE /\ Cardinality(inv) = IF n = 0 THEN 0 ELSE 1
                   /\ (GlobalKey \in DOMAIN handlers) = (n = 0)
    /\ (pc = "done" /\ GlobalKey \in DOMAIN pre /\ GlobalKey \notin DOMAIN handlers) =>
          \/ op.name = "ClearGlobalKeyHandler"
          \/ KeyStateRead /\ ~Invoke(pre[GlobalKey], GlobalKey) /\ PressedIds # {}

C6_GlobalKeepOncePerPress ==
    []C6_State /\ [][pc = "done" => (pc' = "idle" /\ handlers' = handlers)]_vars

C6_Witness ==
    /\ KeyStateRead
    /\ GlobalKey \in DOMAIN pre
    /\ pre[GlobalKey] = "keep"
    /\ Cardinality(PressedIds) = 2
    /\ Cardinality(InvokedWith(GlobalKey)) = 2
    /\ GlobalKey \in DOMAIN handlers

(***************************************************************************)
(* C7. Handler targeting: in a key-state report the handler registered for *)
(* key k is invoked if and only if the state byte at report index          *)
(* 1 + translate(k) is 1, with argument k and at most once; state bytes    *)
(* other than 1 invoke nothing.                                            *)
(***************************************************************************)
C7_Targeting ==
    KeyStateRead =>
        /\ \A k \in (DOMAIN pre) \ {GlobalKey} :
              LET inv == InvokedWith(k)
              IN  IF StateByte(translate(k)) = Pressed
                  THEN /\ Cardinality(inv) = 1
                       /\ \A a \in inv :
                             calls[a] = [fn |-> pre[k], arg |-> k, id |-> translate(k)]
                  ELSE inv = {}
        /\ \A a \in DOMAIN calls : calls[a].id \in PressedIds

C7_Witness ==
    /\ KeyStateRead
    /\ 0 \in DOMAIN pre
    /\ StateByte(4) = Pressed
    /\ StateByte(0) = 2
    /\ calls = <<[fn |-> pre[0], arg |-> 0, id |-> 4]>>

(***************************************************************************)
(* C8. As claimed: SetKeyImage without a source and ClearKeyImage, with a  *)
(* valid key and a transport that accepts writes, perform exactly two      *)
(* writes, page 1 before page 2: page 1 is the 74-byte header followed by  *)
(* 7749 payload bytes, page 2 the 16-byte header followed by 7803 payload  *)
(* bytes, and all 15552 payload bytes are zero.                            *)
(***************************************************************************)
\* the bytes of a page after its header of n bytes
PayloadOf(page, n) == SubSeq(page, n + 1, Len(page))

BlankCall ==
    /\ Called(ImageOps)
    /\ op.src.filename = ""
    /\ op.key \in ValidKeys
    /\ wok[1] /\ wok[2]

\* two accepted writes, page 1 before page 2; page 1 is a header of h1 bytes
\* and 7749 zero bytes, page 2 a header of 16 bytes and 7803 zero bytes
BlankPages(h1) ==
    /\ err = Nil
    /\ Len(writes) = 2
    /\ \A i \in 1..2 : writes[i].kind = "write" /\ writes[i].ok
    /\ Len(header1(0)) = h1
    /\ Len(writes[1].page) = h1 + 7749
    /\ SubSeq(writes[1].page, 1, h1) = header1(writes[1].page[KeyIdOffset + 1])
    /\ Len(header2(0)) = 16
    /\ Len(writes[2].page) = 16 + 7803
    /\ SubSeq(writes[2].page, 1, 16) = header2(writes[2].page[KeyIdOffset + 1])
    /\ 7749 + 7803 = 15552
    /\ \A i \in 1..7749 : PayloadOf(writes[1].page, h1)[i] = 0
    /\ \A i \in 1..7803 : PayloadOf(writes[2].page, 16)[i] = 0

C8_BlankPages74 == BlankCall => BlankPages(74)

(***************************************************************************)
(* C8, amended. As C8, with the page 1 header being 70 bytes long (the 16  *)
(* bytes of the page prefix and the 54 bytes of the embedded bitmap        *)
(* header), so that both pages are 7819 bytes long.                        *)
(***************************************************************************)
C8_BlankPages70 == BlankCall => BlankPages(70)

C8_Witness ==
    /\ Called({"ClearKeyImage"})
    /\ op.key = 0
    /\ wok[1] /\ wok[2]
    /\ Len(writes) = 2
    /\ Len(writes[1].page) = 7819
    /\ Len(writes[2].page) = 7819

(***************************************************************************)
(* C9. As claimed: for every valid key k the key-id byte at offset 5 of    *)
(* the page 1 header and of the page 2 header written by SetKeyImage is    *)
(* translate(k), e.g. 4 for key 0.                                         *)
(***************************************************************************)
C9_KeyIdIsTranslated ==
    (Called(ImageOps) /\ op.key \in ValidKeys) =>
        \A i \in DOMAIN writes :
            writes[i].page[KeyIdOffset + 1] = translate(op.key)

(***************************************************************************)
(* C9, amended. For every valid key k the key-id byte at offset 5 of the   *)
(* header of each page written by SetKeyImage is translate(k) + 1, the     *)
(* 1-based native identifier (5 for key 0); in the table generation of     *)
(* SetKeyImage it is translate(k) (4 for key 0).                           *)
(***************************************************************************)
C9_KeyIdOneBased ==
    (Called(ImageOps) /\ op.key \in ValidKeys) =>
        \A i \in DOMAIN writes :
            writes[i].page[KeyIdOffset + 1] =
                IF op.name \in ClosedImageOps
                THEN translate(op.key) + 1
                ELSE translate(op.key)

C9_Witness ==
    /\ Called({"SetKeyImage"})
    /\ op.key = 0
    /\ Len(writes) = 2
    /\ writes[1].page[KeyIdOffset + 1] = 5
    /\ writes[2].page[KeyIdOffset + 1] = 5

(***************************************************************************)
(* C10. The page protocol under write failures: page 2 is written only     *)
(* after the page 1 write succeeded; if the page 1 write fails the call    *)
(* returns an error and page 2 is never attempted; if the page 2 write     *)
(* fails the call returns an error; no write is retried (at most one       *)
(* attempt per page, at most two writes per call); the call returns        *)
(* success if and only if both page writes succeeded.                      *)
(***************************************************************************)
\* the page-sequence byte of a header: 1 in header1, 2 in header2
PageNo(w) == w.page[3]

C10_PageProtocol ==
    Called(ImageOps) =>
        /\ Len(writes) <= 2
        /\ \A i \in DOMAIN writes :
              /\ writes[i].kind = "write"
              /\ PageNo(writes[i]) = i
              /\ writes[i].ok = wok[i]
        /\ Len(writes) = 2 => writes[1].ok
        /\ (Len(writes) >= 1 /\ ~writes[1].ok) => (Len(writes) = 1 /\ err = ErrPage1)
        /\ (Len(writes) = 2 /\ ~writes[2].ok) => err = ErrPage2
        /\ (Len(writes) >= 1 /\ writes[1].ok) => Len(writes) = 2
        /\ (err = Nil) = (Len(writes) = 2 /\ writes[1].ok /\ writes[2].ok)

C10_Witness ==
    /\ Called({"SetKeyImage"})
    /\ ~wok[1] /\ wok[2]
    /\ Len(writes) = 1
    /\ PageNo(writes[1]) = 1
    /\ err = ErrPage1

(***************************************************************************)
(* C11: every ProcessEvents call reads from the transport exactly once.    *)
(* When the read fails the call returns the read error, invokes no handler *)
(* and leaves the registry as it was; when the read returns zero bytes the *)
(* call succeeds, invokes no handler and leaves the registry as it was.    *)
(***************************************************************************)
C11_OneRead ==
    Called(EventOps) =>
        /\ nreads = 1
        /\ read.failed =>
               err = ErrRead /\ calls = <<>> /\ handlers = pre
        /\ (~read.failed /\ read.bytes = 0) =>
               err = Nil /\ calls = <<>> /\ handlers = pre

\* a failed read with a global and a specific handler registered
C11_Witness ==
    /\ Called({"ProcessEvents"})
    /\ read.failed
    /\ nreads = 1
    /\ err = ErrRead
    /\ DOMAIN pre = {0, 255}
    /\ handlers = pre

(***************************************************************************)
(* C12: a non-empty report whose byte 0 is not 1 is discarded: the call    *)
(* returns no error, invokes no handler, global or specific, whatever the  *)
(* other bytes of the report are, and leaves the registry as it was.       *)
(***************************************************************************)
OtherReport == ~read.failed /\ read.bytes > 0 /\ read.report[1] # 1

C12_OtherReportDiscarded ==
    (Called(EventOps) /\ OtherReport) =>
        err = Nil /\ calls = <<>> /\ handlers = pre

\* a report of type 2 whose bytes say "pressed" at a position that has a
\* handler, with a global handler registered as well
C12_Witness ==
    /\ Called({"ProcessEvents"})
    /\ OtherReport
    /\ read.report[1] = 2
    /\ \E i \in 0..14 : StateByte(i) = 1 /\ translate(i) \in DOMAIN pre
    /\ 255 \in DOMAIN pre
    /\ handlers = pre
    /\ calls = <<>>

(***************************************************************************)
(* C13: the key translation maps every byte outside 0..14 to the           *)
(* invalid-key sentinel 255, whichever of the translations is applied.     *)
(***************************************************************************)
C13_InvalidToSentinel ==
    (pc = "translate" /\ tin \notin 0..14 /\ Len(tsteps) >= 1) =>
        tsteps[1].out = 255

(***************************************************************************)
(* C14: a handler that returns false is removed from the registry before   *)
(* any further press of the same report is processed.  In particular a     *)
(* global handler that returns false at the first pressed position of a    *)
(* report is invoked at that position only, and is not invoked in any later *)
(* report until SetGlobalKeyHandler is called again: it is absent when the *)
(* call returns, a call with no global handler registered invokes none,    *)
(* and only SetGlobalKeyHandler (SetKeyHandler for a specific key) puts a  *)
(* key into the registry.                                                  *)
(***************************************************************************)
C14_State ==
    KeyStateRead =>
        /\ \A a \in DOMAIN calls :
              ~Invoke(calls[a].fn, calls[a].arg) =>
                  /\ \A b \in DOMAIN calls : b > a => calls[b].arg # calls[a].arg
                  /\ calls[a].arg \notin DOMAIN handlers
        /\ (255 \in DOMAIN pre /\ ~Invoke(pre[255], 255) /\ PressedIds # {}) =>
              /\ InvokedWith(255) = {1}
              /\ \A j \in PressedIds : calls[1].id <= j
              /\ 255 \notin DOMAIN handlers
        /\ 255 \notin DOMAIN pre => InvokedWith(255) = {}

C14_Step ==
    \A k \in 0..255 :
        (k \notin DOMAIN handlers /\ k \in DOMAIN handlers') =>
            IF k = 255
            THEN op'.name = "SetGlobalKeyHandler"
            ELSE op'.name = "SetKeyHandler" /\ op'.key = k

C14_RemovedAtOnce == []C14_State /\ [][C14_Step]_vars

\* two presses in one report with a global handler that returns false: it is
\* invoked for native id 2 and is gone for native id 7
C14_Witness ==
    /\ Called({"ProcessEvents"})
    /\ KeyStateRead
    /\ PressedIds = {2, 7}
    /\ 255 \in DOMAIN pre
    /\ pre[255] = "once"
    /\ calls = <<[fn |-> "once", arg |-> 255, id |-> 2]>>
    /\ handlers = EmptyMap

(***************************************************************************)
(* C15: within one key-state report the presses are dispatched in          *)
(* ascending order of native id: every invocation is caused by a pressed   *)
(* position, its argument is 255 or the translation of that position, the  *)
(* invocations caused by a position come before those caused by any higher *)
(* position, and of the two a position can cause the global one is first.  *)
(***************************************************************************)
C15_AscendingOrder ==
    KeyStateRead =>
        /\ \A a \in DOMAIN calls :
              /\ calls[a].id \in PressedIds
              /\ calls[a].arg \in {255, translate(calls[a].id)}
        /\ \A a, b \in DOMAIN calls :
              calls[a].id < calls[b].id => a < b
        /\ \A a, b \in DOMAIN calls :
              (a < b /\ calls[a].id = calls[b].id) =>
                  calls[a].arg = 255 /\ calls[b].arg = translate(calls[a].id)

\* native ids 1 and 13 pressed, a global handler and a handler for key 3
\* (native id 1): both invocations of id 1 come before the one of id 13
C15_Witness ==
    /\ Called({"ProcessEvents"})
    /\ KeyStateRead
    /\ PressedIds = {1, 13}
    /\ Len(calls) = 3
    /\ calls[1].id = 1 /\ calls[1].arg = 255
    /\ calls[2].id = 1 /\ calls[2].arg = 3
    /\ calls[3].id = 13 /\ calls[3].arg = 255

(***************************************************************************)
(* C16: for a supplied pixel grid with bounds [minX, maxX) x [minY, maxY)  *)
(* the pixel buffer holds width x height x 3 bytes: scanline after         *)
(* scanline from minY to maxY - 1, and in each scanline the pixels of the  *)
(* columns maxX, maxX - 1, ..., minX + 1 in that order, each as the low    *)
(* bytes of its blue, green and red.  So column maxX, which is outside the *)
(* grid, is read, and column minX is not.                                  *)
(***************************************************************************)
\* SetKeyImage got as far as the pixel loops with a decoded image
GridSupplied ==
    /\ pc = "done"
    /\ op.name = "SetKeyImage" \/ (op.name = "SetKeyImage_table" /\ op.key \in 0..14)
    /\ op.src.filename # ""
    /\ op.src.file.err = Nil

C16_PixelBuffer ==
    GridSupplied =>
        LET img == op.src.file.img
            width == img.maxX - img.minX
            height == img.maxY - img.minY
        IN  /\ Len(buffer) = width * height * 3
            /\ \A row \in 0..(height - 1), col \in 0..(width - 1) :
                  LET px == ImageAt(img, img.maxX - col, img.minY + row)
                      at == (row * width + col) * 3
                  IN  /\ buffer[at + 1] = px.b % 256
                      /\ buffer[at + 2] = px.g % 256
                      /\ buffer[at + 3] = px.r % 256

\* a grid of 2 x 2 pixels at (1, 1): the first pixel of the buffer is the
\* one of column 3, outside the grid, and the second the one of column 2
C16_Witness ==
    /\ GridSupplied
    /\ op.name = "SetKeyImage"
    /\ op.src.file.img = MkImage(1, 1, 2, 2, "ramp")
    /\ Len(buffer) = 12
    /\ SubSeq(buffer, 1, 3) = <<0, 0, 0>>
    /\ SubSeq(buffer, 4, 6) = <<(3 * 911 + 45) % 256, (1031 + 300) % 256,
                                (2 * 1021 + 7) % 256>>

(***************************************************************************)
(* C17: on 0..14 the closed form invertKeyOrId and the tables              *)
(* internalIdToKey and keyToInternalId are one function: whichever of them *)
(* is applied to v, the result is what each of the other two gives for v;  *)
(* and the tables are mutual inverses: one applied after the other gives v *)
(* back.                                                                   *)
(***************************************************************************)
TableFns == {"internalIdToKey", "keyToInternalId"}

C17_SameTranslation ==
    (pc = "translate" /\ tin \in 0..14) =>
        /\ Len(tsteps) >= 1 =>
              /\ tsteps[1].out = invertKeyOrId(tin)
              /\ tsteps[1].out = internalIdToKey(tin)
              /\ tsteps[1].out = keyToInternalId(tin)
        /\ ( /\ Len(tsteps) >= 2
             /\ {tsteps[1].fn, tsteps[2].fn} = TableFns ) =>
              tsteps[2].out = tin

\* native id 3 is logical key 1, and logical key 1 is native id 3
C17_Witness ==
    /\ pc = "translate"
    /\ tin = 3
    /\ tsteps = <<[fn |-> "internalIdToKey", out |-> 1],
                  [fn |-> "keyToInternalId", out |-> 3]>>

(***************************************************************************)
(* C18: whatever calls were made, failing ones included, every key of the  *)
(* handler registry is a logical index 0..14 or the sentinel 255, and a    *)
(* key has one handler, the one registered last: SetKeyHandler(k, f) for a *)
(* valid k leaves f under k, in the place of what was there, and touches   *)
(* no other entry; the image calls and Reset leave the registry alone; and *)
(* a press invokes, at most once per key, the handler the registry held    *)
(* for that key when ProcessEvents was called.                             *)
(***************************************************************************)
RegistryKeys == (0..14) \cup {255}

C18_State ==
    /\ DOMAIN handlers \subseteq RegistryKeys
    /\ (Called({"SetKeyHandler"}) /\ op.key \in 0..14) =>
          /\ DOMAIN handlers = DOMAIN pre \cup {op.key}
          /\ handlers[op.key] = op.fn
          /\ \A k \in DOMAIN pre \ {op.key} : handlers[k] = pre[k]
    /\ Called(ImageOps \cup {"Reset"}) => handlers = pre
    /\ KeyStateRead =>
          \A k \in 0..14 : Cardinality(InvokedWith(k)) <= 1

C18_Step ==
    (pc' = "done" /\ op'.name \in EventOps) =>
        \A a \in DOMAIN calls' :
            /\ calls'[a].arg \in DOMAIN handlers
            /\ calls'[a].fn = handlers[calls'[a].arg]

C18_RegistryInvariant == []C18_State /\ [][C18_Step]_vars

\* SetKeyHandler(3, keep) while "once" is registered for key 3, and a global
\* handler that is left alone
C18_Witness ==
    /\ Called({"SetKeyHandler"})
    /\ op.key = 3
    /\ op.fn = "keep"
    /\ pre = MapPut(MapPut(EmptyMap, 3, "once"), 255, "once")
    /\ handlers[3] = "keep"
    /\ handlers[255] = "once"

(***************************************************************************)
(* C19: every invocation ProcessEvents makes is either one of the global   *)
(* handler, which receives 255 whatever key was pressed, or one of the     *)
(* handler registered under the logical index of the pressed position,     *)
(* which receives that index.  The function registered as global handler   *)
(* is never called with the logical index of the pressed key, unless it is *)
(* registered under that index as well.                                    *)
(***************************************************************************)
C19_HandlerArgument ==
    KeyStateRead =>
        \A a \in DOMAIN calls :
            LET c == calls[a]
            IN  \/ /\ c.arg = 255
                   /\ 255 \in DOMAIN pre
                   /\ c.fn = pre[255]
                \/ /\ c.arg \in 0..14
                   /\ c.arg = translate(c.id)
                   /\ c.arg \in DOMAIN pre
                   /\ c.fn = pre[c.arg]

\* native ids 1 and 6 pressed, "keep" as global handler and "once" for key 3
\* (native id 1): "keep" gets 255 twice and "once" gets 3
C19_Witness ==
    /\ Called({"ProcessEvents"})
    /\ KeyStateRead
    /\ calls = <<[fn |-> "keep", arg |-> 255, id |-> 1],
                 [fn |-> "once", arg |-> 3, id |-> 1],
                 [fn |-> "keep", arg |-> 255, id |-> 6]>>

(***************************************************************************)
(* C20: a handler may register handlers while it is being invoked, and the *)
(* removal after a false return is by key.  A handler for key k (255 for   *)
(* the global one) that registers g under k and returns false leaves no    *)
(* handler under k, and g is not invoked; one that registers g under k and *)
(* returns true leaves g under k.  What a handler registers or clears      *)
(* under another key holds for the later presses of the same report: a     *)
(* press of native id 4 (key 0) after a handler registered g under key 0   *)
(* invokes g, and one after a handler cleared key 0 invokes nothing for    *)
(* key 0.                                                                  *)
(***************************************************************************)
\* an invocation of fn that happens before the specific-key dispatch of the
\* press of native id 4
BeforeKey0(fn) ==
    \E b \in DOMAIN calls :
        /\ calls[b].fn = fn
        /\ calls[b].id < 4 \/ (calls[b].id = 4 /\ calls[b].arg = 255)

C20_Reentrant ==
    KeyStateRead =>
        /\ \A a \in DOMAIN calls :
              /\ calls[a].fn = "swapOnce" =>
                    /\ calls[a].arg \notin DOMAIN handlers
                    /\ \A b \in DOMAIN calls : b > a => calls[b].arg # calls[a].arg
              /\ calls[a].fn = "swapKeep" =>
                    /\ calls[a].arg \in DOMAIN handlers
                    /\ handlers[calls[a].arg] = "keep"
        /\ fns = {"swapOnce"} =>
              \A k \in DOMAIN handlers : handlers[k] = "swapOnce"
        /\ fns = {"arm"} =>
              /\ (4 \in PressedIds /\ BeforeKey0("arm")) =>
                    \E a \in DOMAIN calls :
                        calls[a] = [fn |-> "keep", arg |-> 0, id |-> 4]
              /\ calls # <<>> => (0 \in DOMAIN handlers /\ handlers[0] = "keep")
        /\ fns = {"disarm", "keep"} =>
              /\ BeforeKey0("disarm") => InvokedWith(0) = {}
              /\ (\E a \in DOMAIN calls : calls[a].fn = "disarm") =>
                    0 \notin DOMAIN handlers

\* native ids 2 and 7 pressed and a global handler that registers "keep" as
\* global handler and returns false: invoked for id 2, and nothing is
\* invoked for id 7
C20_Witness ==
    /\ KeyStateRead
    /\ PressedIds = {2, 7}
    /\ pre = MapPut(EmptyMap, 255, "swapOnce")
    /\ calls = <<[fn |-> "swapOnce", arg |-> 255, id |-> 2]>>
    /\ handlers = EmptyMap

\* a global handler that registers "keep" under key 0 while native ids 1 and
\* 4 are pressed: "keep" is invoked for the press of native id 4
C20_ArmWitness ==
    /\ KeyStateRead
    /\ PressedIds = {1, 4}
    /\ pre = MapPut(EmptyMap, 255, "arm")
    /\ calls = <<[fn |-> "arm", arg |-> 255, id |-> 1],
                 [fn |-> "arm", arg |-> 255, id |-> 4],
                 [fn |-> "keep", arg |-> 0, id |-> 4]>>

====
